---------------------------- MODULE Spec2Model ----------------------------
(***************************************************************************)
(* A model of the streaming blocks of prose/_blocks/imutils.py (Stack,     *)
(* StackStd, Video, SavePhots, CleanCosmics) and of                        *)
(* NEBCheck.plot_neb_lcs of prose/reports/neb_aij.py.                      *)
(*                                                                         *)
(* A pipeline is a sequence of blocks.  Every block is initialized once,   *)
(* every image is passed to run of every block in file order, and every    *)
(* block is terminated once.  An exception raised by a handler aborts the  *)
(* pipeline.  numpy arrays are objects on a heap, so that two names for    *)
(* one array (self.stack = image.data) are two references to one object.   *)
(*                                                                         *)
(* SpecStack is a pipeline of Stack alone, SpecBuffers of Stack, StackStd  *)
(* and Video, SpecPhots of SavePhots, SpecCosmics of CleanCosmics, and     *)
(* SpecNEB is one call of plot_neb_lcs.                                    *)
(***************************************************************************)
EXTENDS Integers, Sequences, FiniteSets, TLC

VARIABLES
    pipeline,      \* the blocks of the pipeline, in registration order
    pc,            \* the driver's position: phase, image index, block index
    err,           \* the exception that aborted the pipeline, or "none"
    fits_manager,  \* the dataset context
    images,        \* the Image objects of the stream, by file index
    heap,          \* the pixel arrays, by object id
    disk,          \* the destination file of every block
    stack,         \* the Stack instance
    stackStd,      \* the StackStd instance
    video,         \* the Video instance
    savePhots,     \* the SavePhots instance
    cleanCosmics,  \* the CleanCosmics instance
    neb            \* the NEBCheck instance and the call of plot_neb_lcs

vars == <<pipeline, pc, err, fits_manager, images, heap, disk, stack,
          stackStd, video, savePhots, cleanCosmics, neb>>

---------------------------------------------------------------------------
(* Bounds of the model.                                                    *)

\* the largest number of files of a dataset in the pixel pipelines
MaxFiles == 3

\* the largest number of frames collected by SavePhots
MaxFrames == 2

\* the largest length of an axis of an image's fluxes array
MaxDim == 2

\* the pixel positions of an image (all images have this shape)
Pixels == {0, 1}

\* the values of the first pixel of an input image; the second is one more
PixelValues == {1, 2}

---------------------------------------------------------------------------
(* Exact arithmetic: a pixel value is a fraction <<numerator, denominator>> *)
(* with a positive denominator.                                            *)

Rat(n) == <<n, 1>>

RatAdd(a, b) == <<a[1] * b[2] + b[1] * a[2], a[2] * b[2]>>

RatSub(a, b) == <<a[1] * b[2] - b[1] * a[2], a[2] * b[2]>>

RatMul(a, b) == <<a[1] * b[1], a[2] * b[2]>>

RatDivInt(a, n) == <<a[1], a[2] * n>>

RatEq(a, b) == a[1] * b[2] = b[1] * a[2]

RatGt(a, b) == a[1] * b[2] > b[1] * a[2]

\* the sum of f[i] for i in 0..n-1, f a function to fractions
RECURSIVE RatSum(_, _)
RatSum(f, n) == IF n = 0 THEN Rat(0) ELSE RatAdd(RatSum(f, n - 1), f[n - 1])

---------------------------------------------------------------------------
(* The pipeline driver.                                                    *)

NFiles == fits_manager.files

Position(phase, img, blk) ==
    [phase |-> phase, img |-> img, blk |-> blk, raised_in |-> "nothing"]

\* the position after the handler at position p has returned
Advance(p) ==
    IF p.blk < Len(pipeline) THEN Position(p.phase, p.img, p.blk + 1)
    ELSE IF p.phase = "initialize"
        THEN IF NFiles > 0 THEN Position("run", 0, 1)
             ELSE Position("terminate", 0, 1)
    ELSE IF p.phase = "run"
        THEN IF p.img + 1 < NFiles THEN Position("run", p.img + 1, 1)
             ELSE Position("terminate", 0, 1)
    ELSE Position("done", 0, 0)

\* the position after the handler at position p has raised
Abort(p) ==
    [phase |-> "failed", img |-> p.img, blk |-> p.blk, raised_in |-> p.phase]

At(phase, block) ==
    /\ pc.phase = phase
    /\ pc.blk \in 1..Len(pipeline)
    /\ pipeline[pc.blk] = block

\* hdu.writeto(destination, overwrite=overwrite) raises OSError when the
\* file exists and overwrite is false
WriteRaises(file, overwrite) == file.exists /\ ~overwrite

\* the destination after content has been written to it; old records that
\* the file was there before the pipeline started
Written(file, content) ==
    [exists |-> TRUE, old |-> file.old, written |-> TRUE, content |-> content]

---------------------------------------------------------------------------
(* Stack                                                                   *)

None == <<>>

Some(x) == <<x>>

\* int(self.reference * len(fits_manager.files)), reference = r[1] / r[2]
ReferenceFrame(r, n) == (r[1] * n) \div r[2]

StackInitialize ==
    /\ At("initialize", "Stack")
    /\ LET reference_frame == ReferenceFrame(stack.reference, NFiles)
       IN  IF reference_frame >= NFiles
           THEN /\ err' = "IndexError"
                /\ pc' = Abort(pc)
                /\ UNCHANGED stack
           ELSE /\ stack' = [stack EXCEPT
                        !.reference_image_path = Some(reference_frame),
                        !.stack_header = [source |-> Some(reference_frame),
                                          wcs |-> None, imtype |-> None,
                                          bzero |-> None, reddate |-> None,
                                          nimages |-> None, fliptime |-> None]]
                /\ pc' = Advance(pc)
                /\ UNCHANGED err
    /\ UNCHANGED <<pipeline, fits_manager, images, heap, disk, stackStd,
                   video, savePhots, cleanCosmics, neb>>

\* self.stack += image.data: the heap after the in-place addition
StackAddNoAccumulate(h, ref, data) == [h EXCEPT ![ref] = h[data]]

StackAdd(h, ref, data) ==
    [h EXCEPT ![ref] = [p \in Pixels |-> RatAdd(h[ref][p], h[data][p])]]

StackRun ==
    /\ At("run", "Stack")
    /\ LET image == images[pc.img]
           first == stack.stack = None
           header == IF Some(image.path) = stack.reference_image_path
                     THEN [stack.stack_header EXCEPT !.wcs = Some(image.path)]
                     ELSE stack.stack_header
       IN  /\ stack' = [stack EXCEPT
                   !.stack = IF first THEN Some(image.data) ELSE @,
                   !.stack_header = header]
           /\ heap' = IF first THEN heap
                      ELSE StackAdd(heap, stack.stack[1], image.data)
    /\ pc' = Advance(pc)
    /\ UNCHANGED <<pipeline, err, fits_manager, images, disk, stackStd,
                   video, savePhots, cleanCosmics, neb>>

\* [idx for idx, (i, j) in enumerate(zip(flip, flip[1:]), 1) if i != j]
RECURSIVE ChangingFlipIdxsFrom(_, _, _)
ChangingFlipIdxsFrom(flip, n, idx) ==
    IF idx >= n THEN <<>>
    ELSE (IF flip[idx - 1] # flip[idx] THEN <<idx>> ELSE <<>>)
         \o ChangingFlipIdxsFrom(flip, n, idx + 1)

ChangingFlipIdxsFromZero(flip, n) ==
    IF n = 0 THEN <<>>
    ELSE [i \in 1..Len(ChangingFlipIdxsFrom(flip, n, 1)) |->
              ChangingFlipIdxsFrom(flip, n, 1)[i] - 1]

ChangingFlipIdxs(flip, n) == ChangingFlipIdxsFrom(flip, n, 1)

\* self.stack /= len(self.fits_manager.files)
StackDivide(h, ref, n) ==
    [h EXCEPT ![ref] = [p \in Pixels |-> RatDivInt(h[ref][p], n)]]

StackTerminate ==
    /\ At("terminate", "Stack")
    /\ IF stack.stack = None
       THEN /\ err' = "TypeError"
            /\ pc' = Abort(pc)
            /\ UNCHANGED <<heap, stack, disk>>
       ELSE LET ref == stack.stack[1]
                h == StackDivide(heap, ref, NFiles)
                changing_flip_idxs ==
                    ChangingFlipIdxs(fits_manager.flip, NFiles)
                header == [stack.stack_header EXCEPT
                    !.imtype = Some("Stack image"),
                    !.bzero = Some(0),
                    !.reddate = Some("now"),
                    !.nimages = Some(NFiles),
                    !.fliptime = IF Len(changing_flip_idxs) > 0
                                 THEN Some(fits_manager.jd[changing_flip_idxs[1]])
                                 ELSE @]
            IN  /\ heap' = h
                /\ stack' = [stack EXCEPT !.stack_header = header]
                /\ IF WriteRaises(disk["Stack"], stack.overwrite)
                   THEN /\ err' = "OSError"
                        /\ pc' = Abort(pc)
                        /\ UNCHANGED disk
                   ELSE /\ disk' = [disk EXCEPT !["Stack"] = Written(@,
                                [data |-> h[ref], header |-> header])]
                        /\ pc' = Advance(pc)
                        /\ UNCHANGED err
    /\ UNCHANGED <<pipeline, fits_manager, images, stackStd, video,
                   savePhots, cleanCosmics, neb>>

---------------------------------------------------------------------------
(* StackStd                                                                *)

StackStdInitialize ==
    /\ At("initialize", "StackStd")
    /\ stackStd' = [stackStd EXCEPT !.stack_header =
                        IF fits_manager.has_stack THEN Some("stack header")
                        ELSE None]
    /\ pc' = Advance(pc)
    /\ UNCHANGED <<pipeline, err, fits_manager, images, heap, disk, stack,
                   video, savePhots, cleanCosmics, neb>>

\* self.images.append(image.data): the list holds the array object itself
StackStdRun ==
    /\ At("run", "StackStd")
    /\ stackStd' = [stackStd EXCEPT
                        !.images = Append(@, images[pc.img].data)]
    /\ pc' = Advance(pc)
    /\ UNCHANGED <<pipeline, err, fits_manager, images, heap, disk, stack,
                   video, savePhots, cleanCosmics, neb>>

\* np.std(arrays, axis=0) ** 2 at pixel p: the population variance
Variance(arrays, p) ==
    LET n == Len(arrays)
        mean == RatDivInt(RatSum([i \in 0..n-1 |-> arrays[i + 1][p]], n), n)
        sq(i) == RatMul(RatSub(arrays[i + 1][p], mean),
                        RatSub(arrays[i + 1][p], mean))
    IN  RatDivInt(RatSum([i \in 0..n-1 |-> sq(i)], n), n)

StackStdTerminate ==
    /\ At("terminate", "StackStd")
    /\ LET arrays == [i \in 1..Len(stackStd.images) |-> heap[stackStd.images[i]]]
           stack_std == [p \in Pixels |-> [sqrt |-> Variance(arrays, p)]]
           header == [base |-> stackStd.stack_header, imtype |-> "std"]
       IN  /\ stackStd' = [stackStd EXCEPT !.images = <<>>,
                                           !.images_array = Some(arrays),
                                           !.stack_std = Some(stack_std)]
           /\ IF WriteRaises(disk["StackStd"], stackStd.overwrite)
              THEN /\ err' = "OSError"
                   /\ pc' = Abort(pc)
                   /\ UNCHANGED disk
              ELSE /\ disk' = [disk EXCEPT !["StackStd"] = Written(@,
                           [data |-> stack_std, header |-> header])]
                   /\ pc' = Advance(pc)
                   /\ UNCHANGED err
    /\ UNCHANGED <<pipeline, fits_manager, images, heap, stack, video,
                   savePhots, cleanCosmics, neb>>

---------------------------------------------------------------------------
(* Video                                                                   *)

\* viz.gif_image_array(data, factor): a new array made from data
GifImageArray(data, factor) == [gif |-> data, factor |-> factor]

\* Video defines no initialize: the one inherited from Block does nothing
VideoInitialize ==
    /\ At("initialize", "Video")
    /\ pc' = Advance(pc)
    /\ UNCHANGED <<pipeline, err, fits_manager, images, heap, disk, stack,
                   stackStd, video, savePhots, cleanCosmics, neb>>

VideoRun ==
    /\ At("run", "Video")
    /\ LET data == heap[images[pc.img].data]
       IN  video' = [video EXCEPT !.images = Append(@,
                        IF video.from_fits
                        THEN GifImageArray(data, video.factor)
                        ELSE [copy |-> data])]
    /\ pc' = Advance(pc)
    /\ UNCHANGED <<pipeline, err, fits_manager, images, heap, disk, stack,
                   stackStd, savePhots, cleanCosmics, neb>>

\* imageio.mimsave(self.destination, self.images, fps=self.fps)
VideoTerminate ==
    /\ At("terminate", "Video")
    /\ disk' = [disk EXCEPT !["Video"] = Written(@,
                    [frames |-> video.images, fps |-> video.fps])]
    /\ pc' = Advance(pc)
    /\ UNCHANGED <<pipeline, err, fits_manager, images, heap, stack, stackStd,
                   video, savePhots, cleanCosmics, neb>>

---------------------------------------------------------------------------
(* Initial states.                                                         *)

Blocks == {"Stack", "StackStd", "Video", "SavePhots", "CleanCosmics"}

\* the pixel array of an input file whose first pixel is v
InputArray(v) == [p \in Pixels |-> Rat(v + p)]

\* the reference fractions given to Stack, as <<numerator, denominator>>
References == {<<0, 1>>, <<1, 4>>, <<1, 2>>, <<3, 4>>, <<1, 1>>}

EmptyHeader == [source |-> None, wcs |-> None, imtype |-> None,
                bzero |-> None, reddate |-> None, nimages |-> None,
                fliptime |-> None]

EmptyArray == [shape |-> <<0>>, at |-> <<>>]

\* Stack.__init__
NewStack(reference, overwrite) ==
    [reference |-> reference, stack |-> None, stack_header |-> EmptyHeader,
     overwrite |-> overwrite, reference_image_path |-> None]

\* StackStd.__init__
NewStackStd(overwrite) ==
    [images |-> <<>>, images_array |-> None, stack_header |-> None,
     overwrite |-> overwrite, stack_std |-> None]

\* Video.__init__
NewVideo(overwrite, from_fits) ==
    [overwrite |-> overwrite, images |-> <<>>, factor |-> <<1, 4>>,
     fps |-> 10, from_fits |-> from_fits]

\* SavePhots.__init__
NewSavePhots(overwrite) ==
    [overwrite |-> overwrite, images |-> <<>>, stack_path |-> None]

\* CleanCosmics.__init__
NewCleanCosmics ==
    [stack_data |-> None, std_stack |-> None, threshold |-> 2]

\* the fields of NEBCheck that plot_neb_lcs uses, the calls of self.plot
\* and the figures saved
NewNEB == [indexes |-> <<>>, split |-> <<>>, lcs |-> <<>>, plots |-> <<>>,
           saved |-> <<>>, i |-> 0, state |-> "idle"]

File(exists) ==
    [exists |-> exists, old |-> exists, written |-> FALSE, content |-> <<>>]

\* the dataset context of n files with the given per-file flip column
FitsManager(n, flip, file_data, has_stack, std_exists) ==
    [files |-> n, flip |-> flip, jd |-> [i \in 0..n-1 |-> 2459000 + i],
     file_data |-> file_data, has_stack |-> has_stack,
     std_exists |-> std_exists, stack_data |-> InputArray(2),
     std_data |-> InputArray(1), dir_stack |-> FALSE]

\* the image of file i as it enters the stream
PixelImage(i) ==
    [path |-> i, data |-> i, fluxes |-> EmptyArray,
     fluxes_errors |-> EmptyArray, header |-> <<>>, attrs |-> {}]

\* a pipeline of the one block Stack
InitStack ==
    \E n \in 0..MaxFiles :
    \E flip \in [0..n-1 -> BOOLEAN], vals \in [0..n-1 -> PixelValues] :
    \E r \in References, ow \in BOOLEAN, ex \in BOOLEAN :
        /\ pipeline = <<"Stack">>
        /\ pc = Position("initialize", 0, 1)
        /\ err = "none"
        /\ fits_manager = FitsManager(n, flip,
               [i \in 0..n-1 |-> InputArray(vals[i])], FALSE, FALSE)
        /\ images = [i \in 0..n-1 |-> PixelImage(i)]
        /\ heap = [i \in 0..n-1 |-> InputArray(vals[i])]
        /\ disk = [b \in Blocks |-> File(b = "Stack" /\ ex)]
        /\ stack = NewStack(r, ow)
        /\ stackStd = NewStackStd(FALSE)
        /\ video = NewVideo(TRUE, FALSE)
        /\ savePhots = NewSavePhots(FALSE)
        /\ cleanCosmics = NewCleanCosmics
        /\ neb = NewNEB

NextStack == StackInitialize \/ StackRun \/ StackTerminate

SpecStack == InitStack /\ [][NextStack]_vars

\* a pipeline of the three blocks that take the pixels of every image
InitBuffers ==
    \E n \in 0..MaxFiles :
    \E vals \in [0..n-1 -> PixelValues], has_stack \in BOOLEAN :
    \E ow \in [{"Stack", "StackStd", "Video"} -> BOOLEAN] :
    \E ex \in [{"Stack", "StackStd", "Video"} -> BOOLEAN] :
    \E from_fits \in BOOLEAN :
        /\ pipeline = <<"Stack", "StackStd", "Video">>
        /\ pc = Position("initialize", 0, 1)
        /\ err = "none"
        /\ fits_manager = FitsManager(n, [i \in 0..n-1 |-> FALSE],
               [i \in 0..n-1 |-> InputArray(vals[i])], has_stack, FALSE)
        /\ images = [i \in 0..n-1 |-> PixelImage(i)]
        /\ heap = [i \in 0..n-1 |-> InputArray(vals[i])]
        /\ disk = [b \in Blocks |->
                       File(b \in {"Stack", "StackStd", "Video"} /\ ex[b])]
        /\ stack = NewStack(<<1, 2>>, ow["Stack"])
        /\ stackStd = NewStackStd(ow["StackStd"])
        /\ video = NewVideo(ow["Video"], from_fits)
        /\ savePhots = NewSavePhots(FALSE)
        /\ cleanCosmics = NewCleanCosmics
        /\ neb = NewNEB

NextBuffers ==
    \/ StackInitialize
    \/ StackRun
    \/ StackTerminate
    \/ StackStdInitialize
    \/ StackStdRun
    \/ StackStdTerminate
    \/ VideoInitialize
    \/ VideoRun
    \/ VideoTerminate

SpecBuffers == InitBuffers /\ [][NextBuffers]_vars

---------------------------------------------------------------------------
(* Properties of Stack, StackStd and Video.                                *)

\* the sum over the n input files of the integer value of pixel p
RECURSIVE InputSum(_, _)
InputSum(p, n) ==
    IF n = 0 THEN 0
    ELSE InputSum(p, n - 1) + fits_manager.file_data[n - 1][p][1]

\* C4: once Stack.terminate has written the stack, every pixel of the
\* written array is the sum of that pixel over the N input arrays divided
\* by N, and the header's frame count NIMAGES is N.
C4_StackIsMean ==
    disk["Stack"].written =>
        /\ \A p \in Pixels :
               LET d == disk["Stack"].content.data[p]
               IN  d[1] * NFiles = InputSum(p, NFiles) * d[2]
        /\ disk["Stack"].content.header.nimages = Some(NFiles)

\* a stack written from at least two files with different pixels
C4_Witness ==
    /\ disk["Stack"].written
    /\ NFiles >= 2
    /\ fits_manager.file_data[0] # fits_manager.file_data[1]

\* the indexes k with flip[k] # flip[k-1] in the per-file table
Transitions ==
    {k \in 1..(NFiles - 1) : fits_manager.flip[k] # fits_manager.flip[k - 1]}

StackHasStamped == stack.stack_header.nimages # None

\* C5: after Stack.terminate has stamped the header, FLIPTIME is not set
\* when the flip column has no transition, is jd[k] when k is the only
\* transition, and is jd at the smallest transition index when there are
\* several.
C5_FlipTime ==
    StackHasStamped =>
        LET fliptime == stack.stack_header.fliptime
        IN  /\ Transitions = {} => fliptime = None
            /\ \A k \in Transitions :
                   (\A j \in Transitions : k <= j)
                       => fliptime = Some(fits_manager.jd[k])

\* a stack written from a table with several flip transitions
C5_Witness ==
    /\ StackHasStamped
    /\ Cardinality(Transitions) >= 2
    /\ disk["Stack"].written

\* C7: once Stack.initialize has been called on a non-empty file list it
\* has not failed and the reference image is a file of the list: the first
\* for reference 0, the last for reference 1, the middle one for 1/2.
C7_ReferenceInList ==
    (NFiles >= 1 /\ pc.phase # "initialize") =>
        /\ ~(pc.phase = "failed" /\ pc.raised_in = "initialize")
        /\ \E i \in 0..(NFiles - 1) : stack.reference_image_path = Some(i)
        /\ stack.reference = <<0, 1>> => stack.reference_image_path = Some(0)
        /\ stack.reference = <<1, 1>>
               => stack.reference_image_path = Some(NFiles - 1)
        /\ stack.reference = <<1, 2>>
               => stack.reference_image_path
                      \in {Some((NFiles - 1) \div 2), Some(NFiles \div 2)}

\* C9: the pixel array of every image, and every array StackStd holds a
\* reference to, keeps the values read from its file throughout the run
\* and terminate calls of Stack.
C9_ImagesUnchanged ==
    /\ \A i \in 0..(NFiles - 1) : \A p \in Pixels :
           RatEq(heap[images[i].data][p], fits_manager.file_data[i][p])
    /\ \A j \in 1..Len(stackStd.images) : \A p \in Pixels :
           RatEq(heap[stackStd.images[j]][p], fits_manager.file_data[j - 1][p])

Writers == {"Stack", "StackStd", "Video", "SavePhots"}

\* the overwrite argument block b was constructed with
Overwrite(b) ==
    CASE b = "Stack" -> stack.overwrite
      [] b = "StackStd" -> stackStd.overwrite
      [] b = "Video" -> video.overwrite
      [] b = "SavePhots" -> savePhots.overwrite

\* terminate of block b has been called
Terminated(b) ==
    \E k \in 1..Len(pipeline) :
        /\ pipeline[k] = b
        /\ \/ pc.phase = "done"
           \/ pc.phase = "terminate" /\ pc.blk > k
           \/ pc.phase = "failed" /\ pc.raised_in = "terminate" /\ pc.blk >= k

\* C3: when a writing block was constructed with overwrite=False and its
\* destination existed, its terminate has raised the destination-conflict
\* error and nothing has been written to the destination.
C3_NoOverwrite ==
    \A b \in Writers :
        (~Overwrite(b) /\ disk[b].old /\ Terminated(b)) =>
            /\ pc.phase = "failed"
            /\ pc.raised_in = "terminate"
            /\ pipeline[pc.blk] = b
            /\ err = "OSError"
            /\ ~disk[b].written

---------------------------------------------------------------------------
(* numpy arrays of any rank: a shape and the value at every index tuple.   *)
(* Axes and indexes count from 0 as in numpy; the tuples are TLA+          *)
(* sequences, so axis k is position k + 1.                                 *)

RECURSIVE MaxOf(_)
MaxOf(shape) ==
    IF shape = <<>> THEN 0
    ELSE IF Head(shape) > MaxOf(Tail(shape)) THEN Head(shape)
    ELSE MaxOf(Tail(shape))

\* the index tuples of an array of the given shape
Idx(shape) ==
    {s \in [1..Len(shape) -> 0..(MaxOf(shape) - 1)] :
        \A k \in 1..Len(shape) : s[k] < shape[k]}

NdArray(shape, at) == [shape |-> shape, at |-> at]

\* np.array(list) for a list of arrays of one shape
NpArray(list) ==
    IF list = <<>> THEN NdArray(<<0>>, <<>>)
    ELSE LET shape == <<Len(list)>> \o list[1].shape
         IN  NdArray(shape, [s \in Idx(shape) |-> list[s[1] + 1].at[Tail(s)]])

\* a.transpose(order)
Transpose(a, order) ==
    LET r == Len(a.shape)
        shape == [k \in 1..r |-> a.shape[order[k] + 1]]
        pos(axis) == CHOOSE k \in 1..r : order[k] = axis
    IN  NdArray(shape,
                [j \in Idx(shape) |-> a.at[[m \in 1..r |-> j[pos(m - 1)]]]])

\* np.moveaxis raises AxisError for an axis that the array does not have
MoveAxisRaises(a, source, destination) ==
    source >= Len(a.shape) \/ destination >= Len(a.shape)

\* the axis order of np.moveaxis: the other axes in order, with source
\* inserted at position destination
MoveAxisOrder(ndim, source, destination) ==
    LET rest == SelectSeq([k \in 1..ndim |-> k - 1], LAMBDA n : n # source)
    IN  SubSeq(rest, 1, destination) \o <<source>>
            \o SubSeq(rest, destination + 1, Len(rest))

\* np.moveaxis(a, source, destination)
MoveAxis(a, source, destination) ==
    Transpose(a, MoveAxisOrder(Len(a.shape), source, destination))

---------------------------------------------------------------------------
(* SavePhots                                                               *)

\* the header keywords of the telescope of the dataset
Telescope ==
    [keyword_image_type |-> "IMAGETYP", keyword_exposure_time |-> "EXPTIME",
     keyword_julian_date |-> "JD", keyword_seeing |-> "SEEING",
     keyword_ra |-> "RA", keyword_dec |-> "DEC"]

\* the keywords SavePhots.terminate looks for, in its order
Keywords ==
    <<"sky", "fwhm", "fwhmx", "fwhmy", "psf_angle", "dx", "dy", "airmass",
      Telescope.keyword_exposure_time, Telescope.keyword_julian_date,
      Telescope.keyword_seeing, Telescope.keyword_ra, Telescope.keyword_dec>>

\* str.lower() on the keywords
LowerCase ==
    [EXPTIME |-> "exptime", JD |-> "jd", SEEING |-> "seeing", RA |-> "ra",
     DEC |-> "dec", IMAGETYP |-> "imagetyp", OBJECT |-> "object"]

Lower(k) == IF k \in DOMAIN LowerCase THEN LowerCase[k] ELSE k

\* the attributes SavePhots.terminate saves when the first image has them
ExtraKeys == <<"apertures_area", "annulus_area">>

SavePhotsInitialize ==
    /\ At("initialize", "SavePhots")
    /\ savePhots' = [savePhots EXCEPT !.stack_path =
                         IF fits_manager.has_stack THEN Some("stack") ELSE @]
    /\ pc' = Advance(pc)
    /\ UNCHANGED <<pipeline, err, fits_manager, images, heap, disk, stack,
                   stackStd, video, cleanCosmics, neb>>

\* self.images.append(image): the list holds the Image objects
SavePhotsRun ==
    /\ At("run", "SavePhots")
    /\ savePhots' = [savePhots EXCEPT !.images = Append(@, pc.img)]
    /\ pc' = Advance(pc)
    /\ UNCHANGED <<pipeline, err, fits_manager, images, heap, disk, stack,
                   stackStd, video, cleanCosmics, neb>>

\* the header of the primary HDU
PhotsHeaderSource ==
    IF savePhots.stack_path # None THEN "stack"
    ELSE IF fits_manager.dir_stack THEN "found stack"
    ELSE "empty"

ReorderedOnce(a) == MoveAxis(a, 1, 0)

\* the two np.moveaxis calls made for backward compatibility
Reordered(a) == MoveAxis(MoveAxis(a, 1, 0), 2, 1)

ReorderRaises(a) ==
    MoveAxisRaises(a, 1, 0) \/ MoveAxisRaises(MoveAxis(a, 1, 0), 2, 1)

\* if len(fluxes.shape) == 2: fluxes = np.array([fluxes])
Promoted(a) == IF Len(a.shape) = 2 THEN NpArray(<<a>>) ELSE a

KeywordGoverningImageLast(imgs) == imgs[Len(imgs)]

\* the image whose header decides which keywords get a column
KeywordGoverningImage(imgs) == imgs[1]

\* the dict data after the first i keywords have been looked for
RECURSIVE MetaData(_, _)
MetaData(imgs, i) ==
    IF i = 0 THEN <<>>
    ELSE LET data == MetaData(imgs, i - 1)
             keyword == Keywords[i]
             _data == [f \in 1..Len(imgs) |-> images[imgs[f]].header[keyword]]
         IN  IF keyword \in DOMAIN images[KeywordGoverningImage(imgs)].header
             THEN [c \in DOMAIN data \cup {Lower(keyword)} |->
                       IF c = Lower(keyword) THEN _data ELSE data[c]]
             ELSE data

\* image.header[keyword] raises KeyError for an image without the keyword
MetaDataRaises(imgs) ==
    \E i \in 1..Len(Keywords) :
        /\ Keywords[i] \in DOMAIN images[KeywordGoverningImage(imgs)].header
        /\ \E f \in 1..Len(imgs) : Keywords[i] \notin DOMAIN images[imgs[f]].header

\* the extra HDUs, in the order they are appended
ExtraHDUs(imgs) ==
    LET present == SelectSeq(ExtraKeys, LAMBDA key : key \in images[imgs[1]].attrs)
    IN  [n \in 1..Len(present) |->
            [name |-> present[n],
             data |-> [f \in 1..Len(imgs) |-> <<present[n], imgs[f]>>]]]

ExtraRaises(imgs) ==
    \E n \in 1..Len(ExtraKeys) :
        /\ ExtraKeys[n] \in images[imgs[1]].attrs
        /\ \E f \in 1..Len(imgs) : ExtraKeys[n] \notin images[imgs[f]].attrs

\* the exception SavePhots.terminate raises, or "none"
SavePhotsRaises ==
    LET imgs == savePhots.images
        fluxes == NpArray([f \in 1..Len(imgs) |-> images[imgs[f]].fluxes])
    IN  IF imgs = <<>> THEN "IndexError"
        ELSE IF ReorderRaises(fluxes) THEN "AxisError"
        ELSE IF MetaDataRaises(imgs) THEN "KeyError"
        ELSE IF ExtraRaises(imgs) THEN "KeyError"
        ELSE IF WriteRaises(disk["SavePhots"], savePhots.overwrite)
            THEN "OSError"
        ELSE "none"

SavePhotsTerminate ==
    /\ At("terminate", "SavePhots")
    /\ LET imgs == savePhots.images
           fluxes == NpArray([f \in 1..Len(imgs) |-> images[imgs[f]].fluxes])
           fluxes_errors ==
               NpArray([f \in 1..Len(imgs) |-> images[imgs[f]].fluxes_errors])
       IN  IF SavePhotsRaises # "none"
           THEN /\ err' = SavePhotsRaises
                /\ pc' = Abort(pc)
                /\ UNCHANGED disk
           ELSE /\ disk' = [disk EXCEPT !["SavePhots"] = Written(@,
                       [header |-> [source |-> PhotsHeaderSource,
                                    reddate |-> "now"],
                        photometry |-> Promoted(Reordered(fluxes)),
                        photometry_errors |-> Promoted(Reordered(fluxes_errors)),
                        stars |-> <<"stars_coords", imgs[1]>>,
                        time_series |-> MetaData(imgs, Len(Keywords)),
                        extra |-> ExtraHDUs(imgs)])]
                /\ pc' = Advance(pc)
                /\ UNCHANGED err
    /\ savePhots' = [savePhots EXCEPT !.stack_path =
                         IF @ = None /\ fits_manager.dir_stack
                         THEN Some("found stack") ELSE @]
    /\ UNCHANGED <<pipeline, fits_manager, images, heap, stack, stackStd,
                   video, cleanCosmics, neb>>

\* the header keys an input image may or may not have
HeaderKeys == {"sky", "EXPTIME"}

\* the shapes of an image's fluxes array: one axis, or two
FluxShapes ==
    {<<d>> : d \in 1..MaxDim} \cup {<<d1, d2>> : d1, d2 \in 1..MaxDim}

\* the fluxes of frame f: every entry names its frame and its index
FluxArray(f, shape, is_error) ==
    NdArray(shape,
            [s \in Idx(shape) |-> [frame |-> f, idx |-> s, error |-> is_error]])

PhotImage(f, shape, keys, attrs) ==
    [path |-> f, data |-> f, fluxes |-> FluxArray(f, shape, FALSE),
     fluxes_errors |-> FluxArray(f, shape, TRUE),
     header |-> [k \in keys \cup {"OBJECT"} |-> [key |-> k, frame |-> f]],
     attrs |-> attrs]

\* a pipeline of the one block SavePhots
InitPhots ==
    \E n \in 0..MaxFrames :
    \E shape \in FluxShapes, keys \in [0..n-1 -> SUBSET HeaderKeys] :
    \E attrs \in {{}, {"apertures_area"}}, has_stack \in BOOLEAN :
    \E ow \in BOOLEAN, ex \in BOOLEAN :
        /\ pipeline = <<"SavePhots">>
        /\ pc = Position("initialize", 0, 1)
        /\ err = "none"
        /\ fits_manager = FitsManager(n, [i \in 0..n-1 |-> FALSE],
               [i \in 0..n-1 |-> InputArray(1)], has_stack, FALSE)
        /\ images = [f \in 0..n-1 |-> PhotImage(f, shape, keys[f], attrs)]
        /\ heap = [i \in 0..n-1 |-> InputArray(1)]
        /\ disk = [b \in Blocks |-> File(b = "SavePhots" /\ ex)]
        /\ stack = NewStack(<<1, 2>>, FALSE)
        /\ stackStd = NewStackStd(FALSE)
        /\ video = NewVideo(TRUE, FALSE)
        /\ savePhots = NewSavePhots(ow)
        /\ cleanCosmics = NewCleanCosmics
        /\ neb = NewNEB

NextPhots == SavePhotsInitialize \/ SavePhotsRun \/ SavePhotsTerminate

SpecPhots == InitPhots /\ [][NextPhots]_vars

---------------------------------------------------------------------------
(* Properties of SavePhots.                                                *)

PhotsFile == disk["SavePhots"].content

\* the number of collected frames
Frames == Len(savePhots.images)

\* every collected image has a fluxes array with r axes
FluxRank(r) ==
    /\ Frames >= 1
    /\ \A f \in 1..Frames : Len(images[savePhots.images[f]].fluxes.shape) = r

\* section out has shape <<n1, n2, Frames>> and out[i, j, f] is entry
\* <<i, j>> of the array of frame f, for the arrays in that field of the images
SectionIsFrameLast(out, field, n1, n2) ==
    /\ out.shape = <<n1, n2, Frames>>
    /\ \A i \in 0..(n1 - 1), j \in 0..(n2 - 1), f \in 0..(Frames - 1) :
           out.at[<<i, j, f>>] = images[savePhots.images[f + 1]][field].at[<<i, j>>]

\* section out has shape <<n2, n1, Frames>> and out[a, s, f] is entry
\* <<s, a>> of the array of frame f
SectionIsTransposed(out, field, n1, n2) ==
    /\ out.shape = <<n2, n1, Frames>>
    /\ \A a \in 0..(n2 - 1), s \in 0..(n1 - 1), f \in 0..(Frames - 1) :
           out.at[<<a, s, f>>] = images[savePhots.images[f + 1]][field].at[<<s, a>>]

FirstShape == images[savePhots.images[1]].fluxes.shape

\* C1 as stated: with per-image fluxes of axes [star, aperture] (collected
\* [frame, star, aperture]) the written sections have shape [A, S, F] and
\* output[a, s, f] = input[f, s, a].
C1_Original ==
    (disk["SavePhots"].written /\ FluxRank(2)) =>
        /\ SectionIsTransposed(PhotsFile.photometry, "fluxes",
                               FirstShape[1], FirstShape[2])
        /\ SectionIsTransposed(PhotsFile.photometry_errors, "fluxes_errors",
                               FirstShape[1], FirstShape[2])

\* C1 as amended: with per-image fluxes of axes [d1, d2] (collected
\* [frame, d1, d2]) the written flux and flux-error sections have shape
\* [d1, d2, F] and output[i, j, f] = input[f, i, j]: the layout is
\* [aperture, star, frame] when the images hold [aperture, star].
C1_FrameAxisLast ==
    (disk["SavePhots"].written /\ FluxRank(2)) =>
        /\ SectionIsFrameLast(PhotsFile.photometry, "fluxes",
                              FirstShape[1], FirstShape[2])
        /\ SectionIsFrameLast(PhotsFile.photometry_errors, "fluxes_errors",
                              FirstShape[1], FirstShape[2])

\* a file written from several frames of 2-D fluxes with unequal axes
C1_Witness ==
    /\ disk["SavePhots"].written
    /\ FluxRank(2)
    /\ Frames >= 2
    /\ FirstShape[1] # FirstShape[2]

\* C2: with 1-D per-image fluxes (collected [frame, star]) terminate does
\* not fail on the axis reordering, and the sections it writes have shape
\* [1, S, F] with output[0, s, f] = input[f, s].
C2_SingleAperture ==
    (FluxRank(1) /\ Terminated("SavePhots")) =>
        /\ err # "AxisError"
        /\ disk["SavePhots"].written =>
               /\ PhotsFile.photometry.shape = <<1, FirstShape[1], Frames>>
               /\ \A s \in 0..(FirstShape[1] - 1), f \in 0..(Frames - 1) :
                      PhotsFile.photometry.at[<<0, s, f>>]
                          = images[savePhots.images[f + 1]].fluxes.at[<<s>>]

\* the recognized keys
Recognized == {Keywords[i] : i \in 1..Len(Keywords)}

\* C8: the columns of the written per-frame table are exactly the
\* lower-cased recognized keys of the first collected image's header, and
\* every column has one entry per collected image, in run order.
C8_FirstFrameGoverns ==
    disk["SavePhots"].written =>
        LET first == DOMAIN images[savePhots.images[1]].header
            table == PhotsFile.time_series
        IN  /\ DOMAIN table = {Lower(k) : k \in Recognized \cap first}
            /\ \A k \in Recognized \cap first :
                   /\ Len(table[Lower(k)]) = Frames
                   /\ \A f \in 1..Frames :
                          table[Lower(k)][f]
                              = images[savePhots.images[f]].header[k]

\* a file written although a recognized key is in the second image's
\* header only, the first image's header holding another recognized key
C8_Witness ==
    /\ disk["SavePhots"].written
    /\ Frames >= 2
    /\ \E k \in Recognized :
           /\ k \notin DOMAIN images[savePhots.images[1]].header
           /\ k \in DOMAIN images[savePhots.images[2]].header
    /\ \E k \in Recognized : k \in DOMAIN images[savePhots.images[1]].header

---------------------------------------------------------------------------
(* CleanCosmics                                                            *)

\* fits.getdata raises FileNotFoundError when test_std.fits is not in the
\* dataset folder; stack_data has been assigned by then
CleanCosmicsInitialize ==
    /\ At("initialize", "CleanCosmics")
    /\ LET stack_data == IF fits_manager.has_stack
                         THEN Some(fits_manager.stack_data)
                         ELSE cleanCosmics.stack_data
       IN  IF fits_manager.std_exists
           THEN /\ cleanCosmics' = [cleanCosmics EXCEPT
                        !.stack_data = stack_data,
                        !.std_stack = Some(fits_manager.std_data)]
                /\ pc' = Advance(pc)
                /\ UNCHANGED err
           ELSE /\ cleanCosmics' = [cleanCosmics EXCEPT
                        !.stack_data = stack_data]
                /\ err' = "FileNotFoundError"
                /\ pc' = Abort(pc)
    /\ UNCHANGED <<pipeline, fits_manager, images, heap, disk, stack,
                   stackStd, video, savePhots, neb>>

\* image.data > (self.stack_data + self.std_stack * self.threshold)
CosmicMask(data, stack_data, std_stack, threshold) ==
    [p \in Pixels |->
        RatGt(data[p], RatAdd(stack_data[p],
                              RatMul(std_stack[p], Rat(threshold))))]

\* None + array raises TypeError when no stack was loaded
CleanCosmicsRun ==
    /\ At("run", "CleanCosmics")
    /\ IF cleanCosmics.stack_data = None
       THEN /\ err' = "TypeError"
            /\ pc' = Abort(pc)
            /\ UNCHANGED heap
       ELSE LET ref == images[pc.img].data
                stack_data == cleanCosmics.stack_data[1]
                mask == CosmicMask(heap[ref], stack_data,
                                   cleanCosmics.std_stack[1],
                                   cleanCosmics.threshold)
            IN  /\ heap' = [heap EXCEPT ![ref] =
                        [p \in Pixels |->
                            IF mask[p] THEN stack_data[p] ELSE heap[ref][p]]]
                /\ pc' = Advance(pc)
                /\ UNCHANGED err
    /\ UNCHANGED <<pipeline, fits_manager, images, disk, stack, stackStd,
                   video, savePhots, cleanCosmics, neb>>

\* CleanCosmics defines no terminate: the one inherited from Block does
\* nothing
CleanCosmicsTerminate ==
    /\ At("terminate", "CleanCosmics")
    /\ pc' = Advance(pc)
    /\ UNCHANGED <<pipeline, err, fits_manager, images, heap, disk, stack,
                   stackStd, video, savePhots, cleanCosmics, neb>>

\* the values of the first pixel of an image given to CleanCosmics
CosmicValues == {1, 5, 9}

\* a pipeline of the one block CleanCosmics
InitCosmics ==
    \E n \in 0..MaxFiles :
    \E vals \in [0..n-1 -> CosmicValues] :
    \E has_stack \in BOOLEAN, std_exists \in BOOLEAN :
        /\ pipeline = <<"CleanCosmics">>
        /\ pc = Position("initialize", 0, 1)
        /\ err = "none"
        /\ fits_manager = FitsManager(n, [i \in 0..n-1 |-> FALSE],
               [i \in 0..n-1 |-> InputArray(vals[i])], has_stack, std_exists)
        /\ images = [i \in 0..n-1 |-> PixelImage(i)]
        /\ heap = [i \in 0..n-1 |-> InputArray(vals[i])]
        /\ disk = [b \in Blocks |-> File(FALSE)]
        /\ stack = NewStack(<<1, 2>>, FALSE)
        /\ stackStd = NewStackStd(FALSE)
        /\ video = NewVideo(TRUE, FALSE)
        /\ savePhots = NewSavePhots(FALSE)
        /\ cleanCosmics = NewCleanCosmics
        /\ neb = NewNEB

NextCosmics ==
    CleanCosmicsInitialize \/ CleanCosmicsRun \/ CleanCosmicsTerminate

SpecCosmics == InitCosmics /\ [][NextCosmics]_vars

\* C6: when the mean stack or the std map is absent, CleanCosmics.initialize
\* fails, and no run is reached with the stack data or the std map unset.
C6_InitializeFailsFast ==
    /\ (pc.phase # "initialize"
            /\ (~fits_manager.has_stack \/ ~fits_manager.std_exists))
           => (pc.phase = "failed" /\ pc.raised_in = "initialize")
    /\ pc.phase = "run"
           => (cleanCosmics.stack_data # None /\ cleanCosmics.std_stack # None)

---------------------------------------------------------------------------
(* NEBCheck.plot_neb_lcs                                                   *)

\* the longest list of indexes given to plot_neb_lcs
MaxIndexes == 62

\* the size of the first group, and of every later group (6 * 6)
FirstGroup == 24

LaterGroup == 36

\* indexes[a:b], a and b counting from 0
Slice(seq, a, b) ==
    SubSeq(seq, a + 1, IF b < Len(seq) THEN b ELSE Len(seq))

\* [indexes[i:i + 6 * 6] for i in range(24, len(indexes), 6 * 6)]
RECURSIVE Chunks(_, _)
Chunks(indexes, i) ==
    IF i >= Len(indexes) THEN <<>>
    ELSE <<Slice(indexes, i, i + LaterGroup)>>
             \o Chunks(indexes, i + LaterGroup)

\* an element of split as the loop sees it: a group of indexes, or one
\* index of the list when split is the list itself
Group(idxs) == [idxs |-> idxs, scalar |-> FALSE]

Scalar(idx) == [idxs |-> <<idx>>, scalar |-> TRUE]

\* the value of split after the if statement
Split(indexes) ==
    IF Len(indexes) > FirstGroup
    THEN <<Group(Slice(indexes, 0, FirstGroup))>>
             \o [n \in 1..Len(Chunks(indexes, FirstGroup)) |->
                     Group(Chunks(indexes, FirstGroup)[n])]
    ELSE [n \in 1..Len(indexes) |-> Scalar(indexes[n])]

\* np.array of lists of different lengths is an array of lists in numpy
\* before 1.24 and raises ValueError from 1.24 on
Ragged(indexes) ==
    /\ Len(indexes) > FirstGroup
    /\ \E n \in 1..Len(Chunks(indexes, FirstGroup)) :
           Len(Chunks(indexes, FirstGroup)[n])
               # Len(Chunks(indexes, FirstGroup)[1])

\* the statements of plot_neb_lcs before the loop
PlotNebLcsBegin ==
    /\ neb.state = "called"
    /\ \/ neb' = [neb EXCEPT !.lcs = <<>>, !.split = Split(neb.indexes),
                             !.i = 0, !.state = "loop"]
       \/ /\ Ragged(neb.indexes)
          /\ neb' = [neb EXCEPT !.lcs = <<>>, !.state = "failed"]
    /\ UNCHANGED <<pipeline, pc, err, fits_manager, images, heap, disk, stack,
                   stackStd, video, savePhots, cleanCosmics>>

\* one iteration of the loop: self.plot of a group draws its curves;
\* self.plot of a single index is a call the method is not written for,
\* which may raise
PlotNebLcsIteration ==
    /\ neb.state = "loop"
    /\ neb.i < Len(neb.split)
    /\ LET idxs == neb.split[neb.i + 1]
           lcs_path == neb.i
           call == [idxs |-> idxs.idxs, scalar |-> idxs.scalar,
                    w |-> IF neb.i = 0 THEN None ELSE Some(6)]
       IN  \/ neb' = [neb EXCEPT !.lcs = Append(@, lcs_path),
                                 !.plots = Append(@, call),
                                 !.saved = Append(@, lcs_path),
                                 !.i = @ + 1]
           \/ /\ idxs.scalar
              /\ neb' = [neb EXCEPT !.lcs = Append(@, lcs_path),
                                    !.state = "failed"]
    /\ UNCHANGED <<pipeline, pc, err, fits_manager, images, heap, disk, stack,
                   stackStd, video, savePhots, cleanCosmics>>

\* the loop has ended and plot_neb_lcs returns
PlotNebLcsReturn ==
    /\ neb.state = "loop"
    /\ neb.i = Len(neb.split)
    /\ neb' = [neb EXCEPT !.state = "done"]
    /\ UNCHANGED <<pipeline, pc, err, fits_manager, images, heap, disk, stack,
                   stackStd, video, savePhots, cleanCosmics>>

\* a call of plot_neb_lcs with a list of n indexes
InitNEB ==
    \E n \in 0..MaxIndexes :
        /\ pipeline = <<>>
        /\ pc = Position("done", 0, 0)
        /\ err = "none"
        /\ fits_manager = FitsManager(0, <<>>, <<>>, FALSE, FALSE)
        /\ images = <<>>
        /\ heap = <<>>
        /\ disk = [b \in Blocks |-> File(FALSE)]
        /\ stack = NewStack(<<1, 2>>, FALSE)
        /\ stackStd = NewStackStd(FALSE)
        /\ video = NewVideo(TRUE, FALSE)
        /\ savePhots = NewSavePhots(FALSE)
        /\ cleanCosmics = NewCleanCosmics
        /\ neb = [NewNEB EXCEPT !.indexes = [k \in 1..n |-> 100 + k],
                                !.state = "called"]

NextNEB == PlotNebLcsBegin \/ PlotNebLcsIteration \/ PlotNebLcsReturn

SpecNEB == InitNEB /\ [][NextNEB]_vars

\* the concatenation of the groups of the first n plot calls
RECURSIVE Plotted(_)
Plotted(n) == IF n = 0 THEN <<>> ELSE Plotted(n - 1) \o neb.plots[n].idxs

\* C10: when plot_neb_lcs has ended, it has saved one figure lcs{i}.png
\* per group, the groups in order make up indexes, the first group has at
\* most 24 indexes and every later one at most 36; for 2 to 24 indexes it
\* has ended normally with the one group of all indexes and the one figure
\* lcs0.png.
C10_OneFigurePerGroup ==
    /\ neb.state = "done" =>
           /\ Plotted(Len(neb.plots)) = neb.indexes
           /\ neb.saved = [i \in 1..Len(neb.plots) |-> i - 1]
           /\ \A i \in 1..Len(neb.plots) :
                  Len(neb.plots[i].idxs)
                      <= (IF i = 1 THEN FirstGroup ELSE LaterGroup)
    /\ (neb.state \in {"done", "failed"}
            /\ Len(neb.indexes) \in 2..FirstGroup) =>
           /\ neb.state = "done"
           /\ neb.saved = <<0>>
           /\ Len(neb.plots) = 1
           /\ neb.plots[1].idxs = neb.indexes
           /\ ~neb.plots[1].scalar

===========================================================================
